---- MODULE Spec2Model ----
(***************************************************************************)
(* Project deletion in the orchest-api:                                    *)
(*   services/orchest-api/app/app/apis/namespace_projects.py               *)
(*                                                                         *)
(* The endpoint Project.delete opens a TwoPhaseExecutor over db.session    *)
(* and runs DeleteProject(tpe).transaction(project_uuid) inside it.        *)
(* TwoPhaseExecutor / TwoPhaseFunction and the four nested units           *)
(* (AbortPipelineRun, StopInteractiveSession, DeleteJob,                   *)
(* DeleteProjectEnvironmentImages) are imported by the file; they are      *)
(* modelled from their specified contract (Transaction Scope, Unit of      *)
(* Work, Terminal Operation Adapters).                                     *)
(***************************************************************************)
EXTENDS Integers, Sequences, FiniteSets, TLC

\* ------------------------------------------------------------------ bounds
MaxRuns == 2          \* interactive run rows in the initial store
NumImages == 3        \* environment images of a project that has images
NumReq == 2           \* request workers of the api
MaxFailures == 1      \* backend calls that fail during one drain

Projects == {"P1", "P2"}
Pipelines == {"pl1", "pl2"}
JobIds == {"j1"}
RunIds == 1..MaxRuns
Req == 1..NumReq

\* models.InteractivePipelineRun.status values the rows start with, and the
\* value the Abort-Run store phase writes.
RunStatuses == {"PENDING", "STARTED", "SUCCESS"}
Aborted == "ABORTED"

\* `in_(["PENDING", "STARTED"])`
LiveStatusesOnlyStarted == {"STARTED"}
LiveStatuses == {"PENDING", "STARTED"}

SuccessMessage == "Project deletion was successful."

VARIABLES
    \* the committed metadata store (db)
    InteractivePipelineRun,     \* run_uuid -> [project_uuid, status]
    InteractiveSession,         \* set of <<project_uuid, pipeline_uuid>>
    Job,                        \* job_uuid -> project_uuid
    NonInteractivePipelineRun,  \* job_uuid -> status of the run the job owns
    EnvironmentImage,           \* set of <<project_uuid, n>>
    \* the infrastructure behind the backends: targets still alive
    backend,
    \* projects for which the endpoint has answered 200
    deleted,
    \* one record of locals per request worker
    pc, project_uuid, interactive_runs, sessions, jobs, i,
    tx, collateral_queue, qi, calls, failures, response, pre

store == <<InteractivePipelineRun, InteractiveSession, Job,
           NonInteractivePipelineRun, EnvironmentImage>>
world == <<backend, deleted>>
locals == <<pc, project_uuid, interactive_runs, sessions, jobs, i,
            tx, collateral_queue, qi, calls, failures, response, pre>>
vars == <<store, world, locals>>

\* ----------------------------------------------------------------- helpers
\* All orderings of a finite set (a query without ORDER BY returns its rows
\* in an order the store chooses).
Orderings(S) ==
    {s \in [1..Cardinality(S) -> S] : \A a, b \in 1..Cardinality(S) : s[a] = s[b] => a = b}

Range(s) == {s[k] : k \in DOMAIN s}

\* A collateral-queue entry: the bound side-effect phase of one unit.
Entry(kind, run, job, project, pipeline) ==
    [kind |-> kind, run |-> run, job |-> job, project |-> project,
     pipeline |-> pipeline]
AbortEntry(run) == Entry("abort", run, "-", "-", "-")
StopEntry(p, pl) == Entry("stop", 0, "-", p, pl)
CancelEntry(j) == Entry("cancel", 0, j, "-", "-")
ImagesEntry(p) == Entry("delete_images", 0, "-", p, "-")
NoopEntry(p) == Entry("noop", 0, "-", p, "-")

EmptyTx == [runs_aborted |-> {}, runs_deleted |-> {},
            sessions_deleted |-> {}, images_deleted |-> {}]

NoResponse == [status |-> 0, message |-> ""]

\* ------------------------------------------------------------------- Init
\* Infrastructure that the rows of a store stand for.
InfraOf(runs, sess, jbs, imgs) ==
    {AbortEntry(u) : u \in {v \in DOMAIN runs : runs[v].status \in {"PENDING", "STARTED"}}}
        \cup {StopEntry(s[1], s[2]) : s \in sess}
        \cup {CancelEntry(j) : j \in DOMAIN jbs}
        \cup {ImagesEntry(im[1]) : im \in imgs}

\* Run uuids carry no meaning: the initial rows are numbered in one fixed
\* order of (project, status).
RowRank(row) ==
    3 * (IF row.project_uuid = "P1" THEN 0 ELSE 1)
        + (CASE row.status = "PENDING" -> 0
             [] row.status = "STARTED" -> 1
             [] OTHER -> 2)

\* Number of rows project p owns in the initial store.
InitRows(p) ==
    Cardinality({u \in DOMAIN InteractivePipelineRun :
                    InteractivePipelineRun[u].project_uuid = p})
        + Cardinality({x \in InteractiveSession : x[1] = p})
        + Cardinality({j \in DOMAIN Job : Job[j] = p})
        + Cardinality({im \in EnvironmentImage : im[1] = p})

Init ==
    /\ \E k \in 0..MaxRuns :
           /\ InteractivePipelineRun \in
                  [1..k -> [project_uuid : Projects, status : RunStatuses]]
           /\ \A a, b \in 1..k :
                  a < b => RowRank(InteractivePipelineRun[a])
                               <= RowRank(InteractivePipelineRun[b])
    /\ InteractiveSession \in SUBSET (Projects \X Pipelines)
    /\ \E D \in SUBSET JobIds : Job \in [D -> Projects]
    /\ NonInteractivePipelineRun = [j \in DOMAIN Job |-> "PENDING"]
    /\ \E owners \in SUBSET Projects :
           EnvironmentImage = owners \X (1..NumImages)
    \* Projects and pipelines are interchangeable: P1 is the project with no
    \* fewer rows, pl1 the pipeline with no fewer sessions.
    /\ InitRows("P1") >= InitRows("P2")
    /\ Cardinality({x \in InteractiveSession : x[2] = "pl1"})
           >= Cardinality({x \in InteractiveSession : x[2] = "pl2"})
    /\ backend = InfraOf(InteractivePipelineRun, InteractiveSession, Job,
                         EnvironmentImage)
    /\ deleted = {}
    /\ pc = [r \in Req |-> "idle"]
    /\ project_uuid = [r \in Req |-> "-"]
    /\ interactive_runs = [r \in Req |-> <<>>]
    /\ sessions = [r \in Req |-> <<>>]
    /\ jobs = [r \in Req |-> <<>>]
    /\ i = [r \in Req |-> 0]
    /\ tx = [r \in Req |-> EmptyTx]
    /\ collateral_queue = [r \in Req |-> <<>>]
    /\ qi = [r \in Req |-> 0]
    /\ calls = [r \in Req |-> <<>>]
    /\ failures = [r \in Req |-> <<>>]
    /\ response = [r \in Req |-> NoResponse]
    /\ pre = [r \in Req |-> <<>>]

\* ---------------------------------------------------------------- queries
\* A query inside the transaction of request r sees the committed rows and
\* the request's own uncommitted changes.
StatusSeen(r, u) ==
    IF u \in tx[r].runs_aborted THEN Aborted ELSE InteractivePipelineRun[u].status

\* The runs query without its status filter.
InteractiveRunsQueryAnyStatus(r, p) ==
    {u \in (DOMAIN InteractivePipelineRun) \ tx[r].runs_deleted :
        InteractivePipelineRun[u].project_uuid = p}

\* The runs query without its project filter.
InteractiveRunsQueryAnyProject(r, p) ==
    {u \in (DOMAIN InteractivePipelineRun) \ tx[r].runs_deleted :
        StatusSeen(r, u) \in LiveStatuses}

InteractiveRunsQuery(r, p) ==
    {u \in (DOMAIN InteractivePipelineRun) \ tx[r].runs_deleted :
        /\ InteractivePipelineRun[u].project_uuid = p
        /\ StatusSeen(r, u) \in LiveStatuses}

\* The sessions query without its project filter.
SessionsQueryAnyProject(r, p) ==
    InteractiveSession \ tx[r].sessions_deleted

SessionsQuery(r, p) ==
    {s \in InteractiveSession \ tx[r].sessions_deleted : s[1] = p}

JobsQuery(r, p) == {j \in DOMAIN Job : Job[j] = p}

ImagesQuery(r, p) ==
    {im \in EnvironmentImage \ tx[r].images_deleted : im[1] = p}

\* ------------------------------------------- TwoPhaseExecutor / functions
\* TwoPhaseFunction.transaction: the store-mutation phase has run; its
\* side-effect phase is appended to the queue of the scope.
Enqueue(r, entries) ==
    collateral_queue' = [collateral_queue EXCEPT ![r] = @ \o entries]

\* Store phases of the nested units, on the transaction of the scope.
AbortPipelineRunTransaction(t, u) ==
    [t EXCEPT !.runs_aborted = @ \cup {u}]
StopInteractiveSessionTransaction(t, p, pl) ==
    [t EXCEPT !.sessions_deleted = @ \cup {<<p, pl>>}]
DeleteProjectEnvironmentImagesTransaction(t, imgs) ==
    [t EXCEPT !.images_deleted = @ \cup imgs]

\* session.commit(): the changes of the transaction become the store.
CommittedRuns(t) ==
    [u \in (DOMAIN InteractivePipelineRun) \ t.runs_deleted |->
        IF u \in t.runs_aborted
        THEN [InteractivePipelineRun[u] EXCEPT !.status = Aborted]
        ELSE InteractivePipelineRun[u]]

SessionCommit(r) ==
    /\ InteractivePipelineRun' = CommittedRuns(tx[r])
    /\ InteractiveSession' = InteractiveSession \ tx[r].sessions_deleted
    /\ EnvironmentImage' = EnvironmentImage \ tx[r].images_deleted
    /\ UNCHANGED <<Job, NonInteractivePipelineRun>>

\* Locals of a worker that is not handling a request.
ClearFrame(r) ==
    /\ interactive_runs' = [interactive_runs EXCEPT ![r] = <<>>]
    /\ sessions' = [sessions EXCEPT ![r] = <<>>]
    /\ jobs' = [jobs EXCEPT ![r] = <<>>]
    /\ i' = [i EXCEPT ![r] = 0]

\* TwoPhaseExecutor.__exit__ with an exception: rollback, the queue is
\* dropped, the exception goes on to the caller.
ExitRollback(r) ==
    /\ tx' = [tx EXCEPT ![r] = EmptyTx]
    /\ collateral_queue' = [collateral_queue EXCEPT ![r] = <<>>]
    /\ UNCHANGED store

\* The exception caught and dropped: the endpoint answers as on success.
RaiseSwallowed(r, e) ==
    /\ ExitRollback(r)
    /\ response' = [response EXCEPT ![r] = [status |-> 200, message |-> SuccessMessage]]
    /\ pc' = [pc EXCEPT ![r] = "done"]
    /\ ClearFrame(r)
    /\ UNCHANGED <<world, project_uuid, qi, calls, failures, pre>>

\* An exception e raised inside the `with` block of Project.delete: the
\* scope exits with it and the endpoint answers 500 with str(e).
Raise(r, e) ==
    /\ ExitRollback(r)
    /\ response' = [response EXCEPT ![r] = [status |-> 500, message |-> e]]
    /\ pc' = [pc EXCEPT ![r] = "done"]
    /\ ClearFrame(r)
    /\ UNCHANGED <<world, project_uuid, qi, calls, failures, pre>>

\* ---------------------------------------------------------------- actions
\* Project.delete is entered for project p by the lowest idle worker:
\* the scope opens and DeleteProject._transaction runs its first query.
Begin(r, p) ==
    /\ pc[r] = "idle"
    /\ \A q \in Req : q < r => pc[q] # "idle"
    /\ \E order \in Orderings(InteractiveRunsQuery(r, p)) :
           interactive_runs' = [interactive_runs EXCEPT ![r] = order]
    /\ project_uuid' = [project_uuid EXCEPT ![r] = p]
    /\ i' = [i EXCEPT ![r] = 1]
    /\ pc' = [pc EXCEPT ![r] = "runs"]
    /\ pre' = [pre EXCEPT ![r] = store]
    /\ UNCHANGED <<store, world, sessions, jobs, tx, collateral_queue, qi,
                   calls, failures, response>>

\* One request at a time.
BeginSerial(r, p) ==
    /\ \A q \in Req : pc[q] = "idle"
    /\ Begin(r, p)

\* The loop over the runs taken from the last selected run to the first.
CurrentRunReversed(r) ==
    interactive_runs[r][Len(interactive_runs[r]) + 1 - i[r]]

\* `for run in interactive_runs`: the run of the current iteration.
CurrentRun(r) == interactive_runs[r][i[r]]

\* The abort of the run issued to the backend at once, inside the loop.
AbortRunInline(r) ==
    /\ pc[r] = "runs"
    /\ i[r] <= Len(interactive_runs[r])
    /\ tx' = [tx EXCEPT ![r] = AbortPipelineRunTransaction(@, CurrentRun(r))]
    /\ calls' = [calls EXCEPT ![r] = Append(@, AbortEntry(CurrentRun(r)))]
    /\ backend' = backend \ {AbortEntry(CurrentRun(r))}
    /\ pc' = [pc EXCEPT ![r] = "delete_run"]
    /\ UNCHANGED <<store, deleted, project_uuid, interactive_runs, sessions,
                   jobs, i, collateral_queue, qi, failures, response, pre>>

\* AbortPipelineRun(self.tpe).transaction(run.run_uuid)
AbortRun(r) ==
    /\ pc[r] = "runs"
    /\ i[r] <= Len(interactive_runs[r])
    /\ \/ /\ tx' = [tx EXCEPT ![r] =
                       AbortPipelineRunTransaction(@, CurrentRun(r))]
          /\ Enqueue(r, <<AbortEntry(CurrentRun(r))>>)
          /\ pc' = [pc EXCEPT ![r] = "delete_run"]
          /\ UNCHANGED <<store, world, project_uuid, interactive_runs, sessions,
                         jobs, i, qi, calls, failures, response, pre>>
       \/ Raise(r, "AbortPipelineRun")

\* The row removal of a run, issued on another session that commits at once.
SessionDeleteAutocommit(r, u) ==
    /\ tx' = [tx EXCEPT ![r].runs_deleted = @ \cup {u}]
    /\ InteractivePipelineRun' =
           [v \in (DOMAIN InteractivePipelineRun) \ {u} |-> InteractivePipelineRun[v]]
    /\ UNCHANGED <<InteractiveSession, Job, NonInteractivePipelineRun,
                   EnvironmentImage>>

\* db.session.delete(run)
SessionDelete(r, u) ==
    /\ tx' = [tx EXCEPT ![r].runs_deleted = @ \cup {u}]
    /\ UNCHANGED store

DeleteRun(r) ==
    /\ pc[r] = "delete_run"
    /\ \/ /\ SessionDelete(r, CurrentRun(r))
          /\ i' = [i EXCEPT ![r] = @ + 1]
          /\ pc' = [pc EXCEPT ![r] = "runs"]
          /\ UNCHANGED <<world, project_uuid, interactive_runs, sessions, jobs,
                         collateral_queue, qi, calls, failures, response, pre>>
       \/ Raise(r, "delete")

\* The sessions query reached while runs are still to be handled.
SelectSessionsEarly(r) ==
    /\ pc[r] = "runs"
    /\ \E order \in Orderings(SessionsQuery(r, project_uuid[r])) :
           sessions' = [sessions EXCEPT ![r] = order]
    /\ i' = [i EXCEPT ![r] = 1]
    /\ pc' = [pc EXCEPT ![r] = "sessions"]
    /\ UNCHANGED <<store, world, project_uuid, interactive_runs, jobs, tx,
                   collateral_queue, qi, calls, failures, response, pre>>

\* The sessions query, once the loop over the runs is over.
SelectSessions(r) ==
    /\ pc[r] = "runs"
    /\ i[r] > Len(interactive_runs[r])
    /\ \E order \in Orderings(SessionsQuery(r, project_uuid[r])) :
           sessions' = [sessions EXCEPT ![r] = order]
    /\ i' = [i EXCEPT ![r] = 1]
    /\ pc' = [pc EXCEPT ![r] = "sessions"]
    /\ UNCHANGED <<store, world, project_uuid, interactive_runs, jobs, tx,
                   collateral_queue, qi, calls, failures, response, pre>>

\* StopInteractiveSession(self.tpe).transaction(project_uuid, pipeline_uuid)
StopSession(r) ==
    /\ pc[r] = "sessions"
    /\ i[r] <= Len(sessions[r])
    /\ \/ /\ tx' = [tx EXCEPT ![r] =
                       StopInteractiveSessionTransaction(@, project_uuid[r],
                                                         sessions[r][i[r]][2])]
          /\ Enqueue(r, <<StopEntry(project_uuid[r], sessions[r][i[r]][2])>>)
          /\ i' = [i EXCEPT ![r] = @ + 1]
          /\ UNCHANGED <<store, world, pc, project_uuid, interactive_runs,
                         sessions, jobs, qi, calls, failures, response, pre>>
       \/ Raise(r, "StopInteractiveSession")

\* The jobs query, once the loop over the sessions is over.
SelectJobs(r) ==
    /\ pc[r] = "sessions"
    /\ i[r] > Len(sessions[r])
    /\ \E order \in Orderings(JobsQuery(r, project_uuid[r])) :
           jobs' = [jobs EXCEPT ![r] = order]
    /\ i' = [i EXCEPT ![r] = 1]
    /\ pc' = [pc EXCEPT ![r] = "jobs"]
    /\ UNCHANGED <<store, world, project_uuid, interactive_runs, sessions, tx,
                   collateral_queue, qi, calls, failures, response, pre>>

\* DeleteJob(job.job_uuid): the unit is constructed (with the job's uuid in
\* the place of the scope) and dropped; its transaction is never called.
ConstructDeleteJob(r) ==
    /\ pc[r] = "jobs"
    /\ i[r] <= Len(jobs[r])
    /\ i' = [i EXCEPT ![r] = @ + 1]
    /\ UNCHANGED <<store, world, pc, project_uuid, interactive_runs, sessions,
                   jobs, tx, collateral_queue, qi, calls, failures, response, pre>>

\* DeleteProjectEnvironmentImages(self.tpe).transaction(project_uuid), the
\* last statement of DeleteProject._transaction; DeleteProject's own (empty)
\* side-effect phase is then queued and the `with` block is left.
DeleteImages(r) ==
    /\ pc[r] = "jobs"
    /\ i[r] > Len(jobs[r])
    /\ \/ /\ tx' = [tx EXCEPT ![r] =
                       DeleteProjectEnvironmentImagesTransaction(
                           @, ImagesQuery(r, project_uuid[r]))]
          /\ Enqueue(r, <<ImagesEntry(project_uuid[r]), NoopEntry(project_uuid[r])>>)
          /\ pc' = [pc EXCEPT ![r] = "exit"]
          /\ UNCHANGED <<store, world, project_uuid, interactive_runs, sessions,
                         jobs, i, qi, calls, failures, response, pre>>
       \/ Raise(r, "DeleteProjectEnvironmentImages")

\* A commit that raises when a row it writes has been removed by another
\* transaction since it was read.
CommitRaisingOnStale(r) ==
    /\ pc[r] = "exit"
    /\ \/ /\ tx[r].runs_deleted \subseteq DOMAIN InteractivePipelineRun
          /\ tx[r].sessions_deleted \subseteq InteractiveSession
          /\ tx[r].images_deleted \subseteq EnvironmentImage
          /\ SessionCommit(r)
          /\ tx' = [tx EXCEPT ![r] = EmptyTx]
          /\ qi' = [qi EXCEPT ![r] = 1]
          /\ pc' = [pc EXCEPT ![r] = "drain"]
          /\ UNCHANGED <<world, project_uuid, interactive_runs, sessions, jobs, i,
                         collateral_queue, calls, failures, response, pre>>
       \/ /\ \/ ~(tx[r].runs_deleted \subseteq DOMAIN InteractivePipelineRun)
             \/ ~(tx[r].sessions_deleted \subseteq InteractiveSession)
             \/ ~(tx[r].images_deleted \subseteq EnvironmentImage)
          /\ Raise(r, "StaleDataError")
       \/ Raise(r, "commit")

\* TwoPhaseExecutor.__exit__ without an exception: commit.
Commit(r) ==
    /\ pc[r] = "exit"
    /\ \/ /\ SessionCommit(r)
          /\ tx' = [tx EXCEPT ![r] = EmptyTx]
          /\ qi' = [qi EXCEPT ![r] = 1]
          /\ pc' = [pc EXCEPT ![r] = "drain"]
          /\ UNCHANGED <<world, project_uuid, interactive_runs, sessions, jobs, i,
                         collateral_queue, calls, failures, response, pre>>
       \/ Raise(r, "commit")

\* A backend that answers an absent target with an error.
CallBackendStrict(r, e) ==
    /\ calls' = [calls EXCEPT ![r] = Append(@, e)]
    /\ \/ /\ e \notin backend
          /\ failures' = [failures EXCEPT ![r] = Append(@, e)]
          /\ UNCHANGED backend
       \/ /\ e \in backend
          /\ backend' = backend \ {e}
          /\ UNCHANGED failures

\* The side-effect phase of a queued unit against its backend.
CallBackend(r, e) ==
    /\ calls' = [calls EXCEPT ![r] = Append(@, e)]
    /\ \/ /\ e \notin backend          \* target already gone: not an error
          /\ UNCHANGED <<backend, failures>>
       \/ /\ e \in backend             \* torn down
          /\ backend' = backend \ {e}
          /\ UNCHANGED failures
       \/ /\ e \in backend             \* the backend call fails
          /\ Len(failures[r]) < MaxFailures
          /\ failures' = [failures EXCEPT ![r] = Append(@, e)]
          /\ UNCHANGED backend

\* A drain that goes no further once an action has failed.
CollateralStoppingOnFailure(r) ==
    /\ pc[r] = "drain"
    /\ qi[r] <= Len(collateral_queue[r])
    /\ failures[r] = <<>>
    /\ \/ /\ collateral_queue[r][qi[r]].kind = "noop"
          /\ UNCHANGED <<backend, calls, failures>>
       \/ /\ collateral_queue[r][qi[r]].kind # "noop"
          /\ CallBackend(r, collateral_queue[r][qi[r]])
    /\ qi' = [qi EXCEPT ![r] = @ + 1]
    /\ UNCHANGED <<store, deleted, pc, project_uuid, interactive_runs, sessions,
                   jobs, i, tx, collateral_queue, response, pre>>

\* TwoPhaseExecutor.__exit__ after the commit: the next queued action runs;
\* an error of it is caught and recorded.
Collateral(r) ==
    /\ pc[r] = "drain"
    /\ qi[r] <= Len(collateral_queue[r])
    /\ \/ /\ collateral_queue[r][qi[r]].kind = "noop"
          /\ UNCHANGED <<backend, calls, failures>>
       \/ /\ collateral_queue[r][qi[r]].kind # "noop"
          /\ CallBackend(r, collateral_queue[r][qi[r]])
    /\ qi' = [qi EXCEPT ![r] = @ + 1]
    /\ UNCHANGED <<store, deleted, pc, project_uuid, interactive_runs, sessions,
                   jobs, i, tx, collateral_queue, response, pre>>

\* The endpoint answering 500 when a collateral action has failed.
RespondFailingOnCollateral(r) ==
    /\ pc[r] = "drain"
    /\ qi[r] > Len(collateral_queue[r])
    /\ response' = [response EXCEPT ![r] =
                        IF failures[r] = <<>>
                        THEN [status |-> 200, message |-> SuccessMessage]
                        ELSE [status |-> 500, message |-> "collateral"]]
    /\ deleted' = deleted \cup {project_uuid[r]}
    /\ pc' = [pc EXCEPT ![r] = "done"]
    /\ UNCHANGED <<store, backend, project_uuid, interactive_runs, sessions, jobs,
                   i, tx, collateral_queue, qi, calls, failures, pre>>

\* return {"message": "Project deletion was successful."}, 200
Respond(r) ==
    /\ pc[r] = "drain"
    /\ qi[r] > Len(collateral_queue[r])
    /\ response' = [response EXCEPT ![r] = [status |-> 200, message |-> SuccessMessage]]
    /\ deleted' = deleted \cup {project_uuid[r]}
    /\ pc' = [pc EXCEPT ![r] = "done"]
    /\ UNCHANGED <<store, backend, project_uuid, interactive_runs, sessions, jobs,
                   i, tx, collateral_queue, qi, calls, failures, pre>>

\* The response has been delivered; the worker is free again.
Return(r) ==
    /\ pc[r] = "done"
    /\ pc' = [pc EXCEPT ![r] = "idle"]
    /\ project_uuid' = [project_uuid EXCEPT ![r] = "-"]
    /\ ClearFrame(r)
    /\ tx' = [tx EXCEPT ![r] = EmptyTx]
    /\ collateral_queue' = [collateral_queue EXCEPT ![r] = <<>>]
    /\ qi' = [qi EXCEPT ![r] = 0]
    /\ calls' = [calls EXCEPT ![r] = <<>>]
    /\ failures' = [failures EXCEPT ![r] = <<>>]
    /\ response' = [response EXCEPT ![r] = NoResponse]
    /\ pre' = [pre EXCEPT ![r] = <<>>]
    /\ UNCHANGED <<store, world>>

Next ==
    \/ \E r \in Req, p \in Projects : BeginSerial(r, p)
    \/ \E r \in Req : AbortRun(r)
    \/ \E r \in Req : DeleteRun(r)
    \/ \E r \in Req : SelectSessions(r)
    \/ \E r \in Req : StopSession(r)
    \/ \E r \in Req : SelectJobs(r)
    \/ \E r \in Req : ConstructDeleteJob(r)
    \/ \E r \in Req : DeleteImages(r)
    \/ \E r \in Req : Commit(r)
    \/ \E r \in Req : Collateral(r)
    \/ \E r \in Req : Respond(r)
    \/ \E r \in Req : Return(r)

Spec == Init /\ [][Next]_vars

\* A store whose other project is empty.
FairInit == Init /\ InitRows("P2") = 0

\* The drain is a loop of the thread that committed: it is not suspended
\* for ever between two queued actions.
FairSpec ==
    /\ FairInit
    /\ [][Next]_vars
    /\ \A r \in Req : WF_vars(Collateral(r))

\* Two requests for the same project with nothing between them but the
\* store: the second may enter while the first is at any point of its
\* cascade, its commit or its drain.
BeginConcurrent(r, p) ==
    /\ Cardinality({q \in Req : pc[q] # "idle"}) < 2
    /\ \A q \in Req : pc[q] # "idle" => project_uuid[q] = p
    /\ Begin(r, p)

\* The steps of the thread that handles request r.
Step(r) ==
    \/ AbortRun(r)
    \/ DeleteRun(r)
    \/ SelectSessions(r)
    \/ StopSession(r)
    \/ SelectJobs(r)
    \/ ConstructDeleteJob(r)
    \/ DeleteImages(r)
    \/ Commit(r)
    \/ Collateral(r)
    \/ Respond(r)

NextConcurrent ==
    \/ \E r \in Req, p \in Projects : BeginConcurrent(r, p)
    \/ \E r \in Req : AbortRun(r)
    \/ \E r \in Req : DeleteRun(r)
    \/ \E r \in Req : SelectSessions(r)
    \/ \E r \in Req : StopSession(r)
    \/ \E r \in Req : SelectJobs(r)
    \/ \E r \in Req : ConstructDeleteJob(r)
    \/ \E r \in Req : DeleteImages(r)
    \/ \E r \in Req : Commit(r)
    \/ \E r \in Req : Collateral(r)
    \/ \E r \in Req : Respond(r)

\* A store whose other project is empty and whose project has at most one
\* live run and one session.
ConcurrentInit ==
    /\ Init
    /\ InitRows("P2") = 0
    /\ Cardinality({u \in DOMAIN InteractivePipelineRun :
                        InteractivePipelineRun[u].status \in {"PENDING", "STARTED"}}) <= 1
    /\ Cardinality(InteractiveSession) <= 1

\* Each request is handled by a thread of its own, which is not suspended
\* for ever.
ConcurrentSpec ==
    /\ ConcurrentInit
    /\ [][NextConcurrent]_vars
    /\ \A r \in Req : WF_vars(Step(r))

TypeOK ==
    /\ pc \in [Req -> {"idle", "runs", "delete_run", "sessions", "jobs", "exit",
                       "drain", "done"}]
    /\ deleted \subseteq Projects

\* ----------------------------------------------------------- properties
Done(r) == pc[r] = "done"
Succeeded(r) == Done(r) /\ response[r].status = 200
Failed(r) == Done(r) /\ response[r].status = 500

NonNoop(q) == SelectSeq(q, LAMBDA e : e.kind # "noop")
OfKind(q, k) == SelectSeq(q, LAMBDA e : e.kind = k)
KindRank(k) ==
    CASE k = "abort" -> 1
      [] k = "stop" -> 2
      [] k = "cancel" -> 3
      [] k = "delete_images" -> 4
      [] OTHER -> 5

\* Rows of a store <<runs, sessions, jobs, job runs, images>> that belong to
\* project p.
RunsOf(st, p) == {u \in DOMAIN st[1] : st[1][u].project_uuid = p}
LiveRunsOf(st, p) == {u \in RunsOf(st, p) : st[1][u].status \in {"PENDING", "STARTED"}}
SessionsOf(st, p) == {x \in st[2] : x[1] = p}
JobsOf(st, p) == {j \in DOMAIN st[3] : st[3][j] = p}
JobRunsOf(st, p) == {j \in DOMAIN st[4] : j \in JobsOf(st, p)}
ImagesOf(st, p) == {im \in st[5] : im[1] = p}

\* The metadata a collateral action stands for is no longer in the store.
MetadataGone(e) ==
    CASE e.kind = "abort" -> e.run \notin DOMAIN InteractivePipelineRun
      [] e.kind = "stop" -> <<e.project, e.pipeline>> \notin InteractiveSession
      [] e.kind = "cancel" -> e.job \notin DOMAIN Job
      [] e.kind = "delete_images" -> ImagesOf(store, e.project) = {}
      [] OTHER -> TRUE

\* C1 (atomicity): when delete_project ends in failure, every run, session,
\* job and image row is as it was before the call, the collateral queue is
\* empty and no collateral action has been invoked.
C1_Atomicity ==
    \A r \in Req :
        Failed(r) =>
            /\ store = pre[r]
            /\ collateral_queue[r] = <<>>
            /\ calls[r] = <<>>
            /\ qi[r] = 0

\* A cascade that failed at the session step after aborting a live run.
C1_Witness ==
    \E r \in Req :
        /\ Failed(r)
        /\ response[r].message = "StopInteractiveSession"
        /\ LiveRunsOf(store, project_uuid[r]) # {}

\* C2 (ordering): whenever an external call has been issued by a request,
\* the transaction of its scope is already committed: the request holds no
\* uncommitted change and the rows the call stands for are out of the store.
C2_Ordering ==
    \A r \in Req :
        calls[r] # <<>> =>
            /\ pc[r] \in {"drain", "done"}
            /\ tx[r] = EmptyTx
            /\ \A k \in 1..Len(calls[r]) : MetadataGone(calls[r][k])

\* An abort call has been issued for a run of the project.
C2_Witness ==
    \E r \in Req :
        /\ pc[r] = "drain"
        /\ \E k \in 1..Len(calls[r]) : calls[r][k].kind = "abort"
        /\ LiveRunsOf(pre[r], project_uuid[r]) # {}

\* C3 (completeness): after a successful delete_project(P) no run (of any
\* status, interactive or owned by a job), session, job or image row
\* references P.
C3_Completeness ==
    \A r \in Req :
        Succeeded(r) =>
            /\ RunsOf(store, project_uuid[r]) = {}
            /\ JobRunsOf(store, project_uuid[r]) = {}
            /\ SessionsOf(store, project_uuid[r]) = {}
            /\ JobsOf(store, project_uuid[r]) = {}
            /\ ImagesOf(store, project_uuid[r]) = {}

\* C4 (partial-failure isolation): when a collateral action has failed, the
\* deletion still ends in success, the rows of every selected dependent stay
\* deleted, and each failure is listed once, as the action that failed.
C4_PartialFailureIsolation ==
    \A r \in Req :
        (Done(r) /\ failures[r] # <<>>) =>
            /\ response[r] = [status |-> 200, message |-> SuccessMessage]
            /\ \A k \in 1..Len(interactive_runs[r]) :
                   interactive_runs[r][k] \notin DOMAIN InteractivePipelineRun
            /\ \A k \in 1..Len(sessions[r]) : sessions[r][k] \notin InteractiveSession
            /\ ImagesOf(store, project_uuid[r]) = {}
            /\ \A k \in 1..Len(failures[r]) :
                   /\ failures[r][k] \in Range(calls[r])
                   /\ \A m \in 1..Len(failures[r]) :
                          failures[r][m] = failures[r][k] => m = k

\* One collateral action failed and another one succeeded.
C4_Witness ==
    \E r \in Req :
        /\ Succeeded(r)
        /\ failures[r] # <<>>
        /\ \E k \in 1..Len(calls[r]) :
               /\ calls[r][k] \notin Range(failures[r])
               /\ calls[r][k] \in InfraOf(pre[r][1], pre[r][2], pre[r][3], pre[r][5])

\* The state before the call is the scenario: P1 has two STARTED interactive
\* runs, one session, one job owning one PENDING run, and three images.
Scenario(r) ==
    /\ project_uuid[r] = "P1"
    /\ Cardinality(RunsOf(pre[r], "P1")) = 2
    /\ \A u \in RunsOf(pre[r], "P1") : pre[r][1][u].status = "STARTED"
    /\ Cardinality(SessionsOf(pre[r], "P1")) = 1
    /\ Cardinality(JobsOf(pre[r], "P1")) = 1
    /\ \A j \in JobsOf(pre[r], "P1") : j \in DOMAIN pre[r][4] /\ pre[r][4][j] = "PENDING"
    /\ Cardinality(ImagesOf(pre[r], "P1")) = 3

\* C5 (scenario): a successful delete_project(P1) in the scenario, with no
\* backend call failing, removes every row of P1 and runs, in enqueue order,
\* three abort calls, one stop call, one job cancel and one image deletion.
C5_Scenario ==
    \A r \in Req :
        (Succeeded(r) /\ Scenario(r) /\ failures[r] = <<>>) =>
            /\ RunsOf(store, "P1") = {}
            /\ SessionsOf(store, "P1") = {}
            /\ JobsOf(store, "P1") = {}
            /\ JobRunsOf(store, "P1") = {}
            /\ ImagesOf(store, "P1") = {}
            /\ calls[r] = NonNoop(collateral_queue[r])
            /\ Len(OfKind(calls[r], "abort")) = 3
            /\ Len(OfKind(calls[r], "stop")) = 1
            /\ Len(OfKind(calls[r], "cancel")) = 1
            /\ Len(OfKind(calls[r], "delete_images")) = 1

\* C6 (collateral queue order): after the commit the queued actions are run
\* front to back, each once; at the end the calls are the queue, the aborts
\* in the order the runs were selected, then the stops in the order the
\* sessions were selected, then job cancels, then the image deletion.
C6_QueueOrder ==
    \A r \in Req :
        /\ pc[r] = "drain" =>
               calls[r] = NonNoop(SubSeq(collateral_queue[r], 1, qi[r] - 1))
        /\ Succeeded(r) =>
               /\ calls[r] = NonNoop(collateral_queue[r])
               /\ \A a, b \in 1..Len(calls[r]) :
                      a < b => /\ KindRank(calls[r][a].kind) <= KindRank(calls[r][b].kind)
                               /\ calls[r][a] # calls[r][b]
               /\ OfKind(calls[r], "abort") =
                      [k \in 1..Len(interactive_runs[r]) |->
                          AbortEntry(interactive_runs[r][k])]
               /\ OfKind(calls[r], "stop") =
                      [k \in 1..Len(sessions[r]) |->
                          StopEntry(project_uuid[r], sessions[r][k][2])]
               /\ OfKind(calls[r], "delete_images") = <<ImagesEntry(project_uuid[r])>>

\* A drain of two aborts (selected against the order of their uuids), a stop
\* and the image deletion has completed.
C6_Witness ==
    \E r \in Req :
        /\ Succeeded(r)
        /\ Len(interactive_runs[r]) = 2
        /\ interactive_runs[r][1] > interactive_runs[r][2]
        /\ Len(sessions[r]) >= 1
        /\ Len(calls[r]) >= 4

\* C7 (referential invariant): no run, session or job row references a
\* project whose deletion has been answered with success.
C7_Referential ==
    \A p \in deleted :
        /\ RunsOf(store, p) = {}
        /\ JobRunsOf(store, p) = {}
        /\ SessionsOf(store, p) = {}
        /\ JobsOf(store, p) = {}

\* The exception each statement of the cascade raises when it fails.
ErrorAt(at) ==
    CASE at = "runs" -> "AbortPipelineRun"
      [] at = "delete_run" -> "delete"
      [] at = "sessions" -> "StopInteractiveSession"
      [] at = "jobs" -> "DeleteProjectEnvironmentImages"
      [] at = "exit" -> "commit"
      [] OTHER -> "-"

\* C8 (failure reporting): a request that ends without having committed
\* answers 500 with the message of the error raised at the statement it had
\* reached, and the store is as before the call; the success answer is given
\* only after the commit, by a request that has drained its queue.
C8_FailureReporting ==
    [][\A r \in Req :
          /\ (pc[r] \in {"runs", "delete_run", "sessions", "jobs", "exit"}
                  /\ pc'[r] = "done") =>
                 /\ response'[r] = [status |-> 500, message |-> ErrorAt(pc[r])]
                 /\ store' = pre[r]
          /\ response'[r].status = 200 =>
                 /\ pc[r] \in {"drain", "done"}
                 /\ response'[r].message = SuccessMessage
                 /\ tx[r] = EmptyTx]_vars

\* The image unit failed after the runs and the sessions of the project had
\* been handled.
C8_Witness ==
    \E r \in Req :
        /\ Failed(r)
        /\ response[r].message = "DeleteProjectEnvironmentImages"
        /\ LiveRunsOf(store, project_uuid[r]) # {}
        /\ SessionsOf(store, project_uuid[r]) # {}

\* C9 (idempotence of teardown): a collateral action whose target is absent
\* from the backend is not a failure: every recorded failure is of a target
\* that was, and still is, alive.
C9_TeardownIdempotent ==
    \A r \in Req :
        \A k \in 1..Len(failures[r]) : failures[r][k] \in backend

\* The image deletion was called for a project that had no image.
C9_Witness ==
    \E r \in Req :
        /\ Succeeded(r)
        /\ ImagesOf(pre[r], project_uuid[r]) = {}
        /\ ImagesEntry(project_uuid[r]) \in Range(calls[r])
        /\ ImagesEntry(project_uuid[r]) \notin Range(failures[r])

\* C10 (job step): once the store-mutation phase of the cascade is over,
\* every selected job has had its Delete-Job unit run in the scope: its row
\* is deleted in the transaction (or the store) and its cancel is queued.
C10_JobStep ==
    \A r \in Req :
        pc[r] \in {"exit", "drain"} =>
            \A k \in 1..Len(jobs[r]) :
                CancelEntry(jobs[r][k]) \in Range(collateral_queue[r])

\* The request is in the store-mutation phase of its cascade.
InStorePhase(r) == pc[r] \in {"runs", "delete_run", "sessions", "jobs", "exit"}

\* C11 (run step): the runs selected are exactly the interactive runs of the
\* project that were PENDING or STARTED before the call; aborts are queued
\* for selected runs only, and a run row is deleted in the transaction only
\* after the Abort-Run store phase has marked it in the same transaction;
\* after the loop every selected run is aborted and deleted.
C11_RunStep ==
    \A r \in Req :
        /\ (InStorePhase(r) \/ pc[r] = "drain") =>
               Range(interactive_runs[r]) = LiveRunsOf(pre[r], project_uuid[r])
        /\ InStorePhase(r) =>
               /\ tx[r].runs_deleted \subseteq tx[r].runs_aborted
               /\ tx[r].runs_aborted \subseteq Range(interactive_runs[r])
               /\ {e.run : e \in Range(OfKind(collateral_queue[r], "abort"))}
                      = tx[r].runs_aborted
        /\ pc[r] = "delete_run" =>
               CurrentRun(r) \in tx[r].runs_aborted \ tx[r].runs_deleted
        /\ pc[r] \in {"sessions", "jobs", "exit"} =>
               tx[r].runs_deleted = Range(interactive_runs[r])

\* The run loop is over for a project that also owns a run that was not
\* selected, or beside a run of another project.
C11_Witness ==
    \E r \in Req :
        /\ pc[r] = "sessions"
        /\ interactive_runs[r] # <<>>
        /\ (DOMAIN InteractivePipelineRun) \ Range(interactive_runs[r]) # {}

\* C12 (session step): the Stop-Session unit is run for exactly the
\* (project, pipeline) pairs that had a session under the project before the
\* call, once for each pair.
C12_SessionStep ==
    \A r \in Req :
        /\ pc[r] = "sessions" =>
               /\ Range(sessions[r]) = SessionsOf(pre[r], project_uuid[r])
               /\ OfKind(collateral_queue[r], "stop") =
                      [k \in 1..(i[r] - 1) |->
                          StopEntry(project_uuid[r], sessions[r][k][2])]
        /\ pc[r] \in {"jobs", "exit", "drain"} =>
               /\ {<<e.project, e.pipeline>> :
                       e \in Range(OfKind(collateral_queue[r], "stop"))}
                      = SessionsOf(pre[r], project_uuid[r])
               /\ Len(OfKind(collateral_queue[r], "stop"))
                      = Cardinality(SessionsOf(pre[r], project_uuid[r]))
        /\ pc[r] \in {"jobs", "exit"} =>
               tx[r].sessions_deleted = SessionsOf(pre[r], project_uuid[r])

\* Both sessions of a project have been stopped while the other project has a
\* session on one of the same pipelines.
C12_Witness ==
    \E r \in Req :
        /\ pc[r] = "jobs"
        /\ Len(sessions[r]) = 2
        /\ \E x \in InteractiveSession : x[1] # project_uuid[r]

Queued(r, k) == OfKind(collateral_queue[r], k) # <<>>
RunsHandled(r) ==
    /\ tx[r].runs_aborted = Range(interactive_runs[r])
    /\ tx[r].runs_deleted = Range(interactive_runs[r])
SessionsHandled(r) == tx[r].sessions_deleted = Range(sessions[r])

DrainOver(r) == pc[r] = "drain" /\ qi[r] > Len(collateral_queue[r])

\* C14 (collateral drain completes): a request that has committed reaches
\* the end of its queue with every queued action attempted, also from a
\* state where an action has failed; while it drains, the store is not
\* changed and the request stays committed.
C14_DrainCompletes ==
    /\ \A r \in Req :
           pc[r] = "drain" ~>
               (DrainOver(r) /\ calls[r] = NonNoop(collateral_queue[r]))
    /\ \A r \in Req :
           (pc[r] = "drain" /\ failures[r] # <<>>) ~> DrainOver(r)
    /\ [][\A r \in Req :
             pc[r] = "drain" =>
                 /\ store' = store
                 /\ pc'[r] \in {"drain", "done"}
                 /\ response'[r].status # 500]_vars

\* An action was attempted after an earlier one of the same drain failed.
C14_Witness ==
    \E r \in Req :
        /\ DrainOver(r)
        /\ failures[r] # <<>>
        /\ calls[r][Len(calls[r])] \notin Range(failures[r])

\* The store a single successful deletion of project p makes of store st.
SingleDelete(st, p) ==
    <<[u \in (DOMAIN st[1]) \ LiveRunsOf(st, p) |-> st[1][u]],
      st[2] \ SessionsOf(st, p),
      st[3],
      st[4],
      st[5] \ ImagesOf(st, p)>>

Committed(r) ==
    pc[r] = "drain" \/ (pc[r] = "done" /\ response[r].status = 200)

RowsOf(st, p) ==
    <<[u \in RunsOf(st, p) |-> st[1][u]],
      SessionsOf(st, p),
      JobsOf(st, p),
      [j \in JobRunsOf(st, p) |-> st[4][j]],
      ImagesOf(st, p)>>

\* The project a collateral action is aimed at, for request r.
TargetProject(r, e) ==
    CASE e.kind = "abort" ->
             IF e.run \in DOMAIN pre[r][1] THEN pre[r][1][e.run].project_uuid
             ELSE "-"
      [] e.kind = "cancel" ->
             IF e.job \in DOMAIN pre[r][3] THEN pre[r][3][e.job] ELSE "-"
      [] OTHER -> e.project

\* C16 (frame): while a request for project P is handled and once it has
\* answered, with success or with an error, every row of every other project
\* is as before the call, the transaction holds changes to rows of P only,
\* and every queued or issued collateral action is aimed at P.
C16_Frame ==
    \A r \in Req :
        pc[r] # "idle" =>
            /\ \A q \in Projects \ {project_uuid[r]} :
                   RowsOf(store, q) = RowsOf(pre[r], q)
            /\ tx[r].runs_aborted \cup tx[r].runs_deleted
                   \subseteq RunsOf(pre[r], project_uuid[r])
            /\ tx[r].sessions_deleted \subseteq SessionsOf(pre[r], project_uuid[r])
            /\ tx[r].images_deleted \subseteq ImagesOf(pre[r], project_uuid[r])
            /\ \A e \in Range(collateral_queue[r]) \cup Range(calls[r]) :
                   TargetProject(r, e) = project_uuid[r]

\* A project with a live run has been deleted beside another project that
\* still has its live run, its session and its images.
C16_Witness ==
    \E r \in Req :
        /\ Succeeded(r)
        /\ LiveRunsOf(pre[r], project_uuid[r]) # {}
        /\ calls[r] # <<>>
        /\ \E q \in Projects \ {project_uuid[r]} :
               /\ LiveRunsOf(store, q) # {}
               /\ SessionsOf(store, q) # {}
               /\ ImagesOf(store, q) # {}

\* Project p has no live interactive run, no session and no job in store st.
EmptyCascade(st, p) ==
    /\ LiveRunsOf(st, p) = {}
    /\ SessionsOf(st, p) = {}
    /\ JobsOf(st, p) = {}

====
